---- MODULE Spec2Model ----
(***************************************************************************)
(* Route optimisation core of the Streamlit route planner                 *)
(* (src/utils/optimization.py): the Problem Builder (create_data_model),  *)
(* the Distance Estimator (compute_euclidean_distance_matrix), the VRPTW  *)
(* solver invocation (optimize_routes) and the Solution Extractor         *)
(* (extract_solution).                                                    *)
(*                                                                         *)
(* Conventions.  Python values are records [kind, chars, val]: a str is a *)
(* sequence of one-character strings, None and an absent dict key are     *)
(* kinds of their own.  Coordinates are held in tenths of a degree, times *)
(* in minutes from midnight.  Node 0 is the depot, node i >= 1 is         *)
(* stops[i] of the 1-based TLA+ sequence, i.e. Python's stops[i-1].       *)
(***************************************************************************)
EXTENDS Integers, Sequences, FiniteSets, TLC

----------------------------------------------------------------------------
(* Bounds of the model *)

MaxStops == 2

MaxTechs == 2

----------------------------------------------------------------------------
(* Python values *)

PyNone == [kind |-> "none", chars |-> <<>>, val |-> 0]

PyAbsent == [kind |-> "absent", chars |-> <<>>, val |-> 0]

PyStr(cs) == [kind |-> "str", chars |-> cs, val |-> 0]

PyNum(n) == [kind |-> "num", chars |-> <<>>, val |-> n]

\* bool(v): None, "" and 0 are falsy; dict.get of a missing key gives None
Truthy(v) ==
    \/ v.kind = "str" /\ v.chars # <<>>
    \/ v.kind = "num" /\ v.val # 0

\* dict.get(key, default): the default only replaces a missing key
GetOr(v, default) == IF v.kind = "absent" THEN default ELSE v

----------------------------------------------------------------------------
(* str.split(':') and int(str) *)

RECURSIVE SplitFrom(_, _, _)
\* the parts of cs[i..] with cur the part collected so far
SplitFrom(cs, i, cur) ==
    IF i > Len(cs) THEN <<cur>>
    ELSE IF cs[i] = ":" THEN <<cur>> \o SplitFrom(cs, i + 1, <<>>)
    ELSE SplitFrom(cs, i + 1, Append(cur, cs[i]))

Split(cs) == SplitFrom(cs, 1, <<>>)

DigitVal(c) ==
    CASE c = "0" -> 0 [] c = "1" -> 1 [] c = "2" -> 2 [] c = "3" -> 3
      [] c = "4" -> 4 [] c = "5" -> 5 [] c = "6" -> 6 [] c = "7" -> 7
      [] c = "8" -> 8 [] c = "9" -> 9 [] OTHER -> -1

RECURSIVE Strip(_)
Strip(cs) ==
    IF cs = <<>> THEN cs
    ELSE IF Head(cs) = " " THEN Strip(Tail(cs))
    ELSE IF cs[Len(cs)] = " " THEN Strip(SubSeq(cs, 1, Len(cs) - 1))
    ELSE cs

RECURSIVE DigitsVal(_, _)
\* value of a digit string, acc the value of the digits read so far
DigitsVal(cs, acc) ==
    IF cs = <<>> THEN acc ELSE DigitsVal(Tail(cs), 10 * acc + DigitVal(Head(cs)))

AllDigits(cs) == cs # <<>> /\ \A i \in 1..Len(cs) : DigitVal(cs[i]) >= 0

\* int(s): surrounding blanks and one sign are accepted; anything else is a
\* ValueError (digit-group underscores are not modelled, no input uses them)
PyInt(cs) ==
    LET s == Strip(cs)
        signed == s # <<>> /\ Head(s) \in {"+", "-"}
        body == IF signed THEN Tail(s) ELSE s
    IN  IF AllDigits(body)
        THEN [ok |-> TRUE,
              val |-> IF signed /\ Head(s) = "-" THEN 0 - DigitsVal(body, 0)
                      ELSE DigitsVal(body, 0),
              err |-> "none"]
        ELSE [ok |-> FALSE, val |-> 0, err |-> "ValueError"]

\* time_to_minutes: hours * 60 + minutes of a str, 0 for anything else;
\* parts[1] of a string without ':' is an IndexError
time_to_minutes(v) ==
    IF v.kind = "str"
    THEN LET parts == Split(v.chars)
             hours == PyInt(parts[1])
         IN  IF ~hours.ok THEN hours
             ELSE IF Len(parts) < 2 THEN [ok |-> FALSE, val |-> 0, err |-> "IndexError"]
             ELSE LET minutes == PyInt(parts[2])
                  IN  IF ~minutes.ok THEN minutes
                      ELSE [ok |-> TRUE, val |-> hours.val * 60 + minutes.val, err |-> "none"]
    ELSE [ok |-> TRUE, val |-> 0, err |-> "none"]

----------------------------------------------------------------------------
(* Program constants *)

\* depot_start = 480 (8:00 AM)
DepotStart == 480

\* depot_end = 1020 (5:00 PM)
DepotEnd == 1020

\* stop.get('service_duration', 30)
DefaultService == 30

\* a slack budget of an hour
SlackMaxDoubled == 2 * 30

\* AddDimension(..., 30, ...): the slack (waiting) each node may add
SlackMax == 30

\* a two-day horizon
CapacityDoubled == 2 * 1440

\* AddDimension(..., 1440, ...): the upper bound of every cumul variable
Capacity == 1440

----------------------------------------------------------------------------
(* Inputs: the time strings, stops, technicians and depots of the model *)

T0900 == PyStr(<<"0", "9", ":", "0", "0">>)

T0910 == PyStr(<<"0", "9", ":", "1", "0">>)

\* a TIME column comes back as HH:MM:SS
T1650 == PyStr(<<"1", "6", ":", "5", "0", ":", "0", "0">>)

T1700 == PyStr(<<"1", "7", ":", "0", "0", ":", "0", "0">>)

T1720 == PyStr(<<"1", "7", ":", "2", "0">>)

T1730 == PyStr(<<"1", "7", ":", "3", "0">>)

T1800 == PyStr(<<"1", "8", ":", "0", "0">>)

T1810 == PyStr(<<"1", "8", ":", "1", "0">>)

T2100 == PyStr(<<"2", "1", ":", "0", "0">>)

T2300 == PyStr(<<"2", "3", ":", "0", "0">>)

\* malformed: no separator and not a number
T9am == PyStr(<<"9", "a", "m">>)

\* malformed: a number without separator
T900 == PyStr(<<"9", "0", "0">>)

\* malformed: empty fields
TColon == PyStr(<<":">>)

MkStop(nm, tws, twe, dur, lat, lng) ==
    [name |-> nm, time_window_start |-> tws, time_window_end |-> twe,
     service_duration |-> dur, latitude |-> lat, longitude |-> lng]

\* at the default depot, no window, no service_duration key
StopPlain == MkStop("plain", PyAbsent, PyAbsent, PyAbsent, PyNum(407), PyNum(-740))

\* a ten-minute morning slot, 13 minutes from the depot
StopMorningB == MkStop("morningB", T0900, T0910, PyNum(30), PyNum(408), PyNum(-740))

\* the same slot, 41 minutes from the depot and 43 from morningB
StopMorningC == MkStop("morningC", T0900, T0910, PyNum(45), PyNum(407), PyNum(-737))

\* the last ten minutes of the working day
StopLate == MkStop("late", T1650, T1700, PyNum(60), PyNum(408), PyNum(-740))

\* opens after the latest depot departure can reach it: needs 7 minutes of waiting
StopEvening == MkStop("evening", T1720, T1730, PyNum(30), PyNum(408), PyNum(-740))

\* needs 47 minutes of waiting
StopNight == MkStop("night", T1800, T1810, PyNum(30), PyNum(408), PyNum(-740))

\* 841 minutes from the depot
StopFar == MkStop("far", T2100, T2300, PyNum(30), PyNum(468), PyNum(-740))

\* earliest > latest
StopInverted == MkStop("inverted", T1700, T0900, PyNum(30), PyNum(407), PyNum(-740))

StopMalformed == MkStop("malformed", T9am, T1700, PyNum(30), PyNum(407), PyNum(-740))

StopNoColon == MkStop("nocolon", T0900, T900, PyNum(30), PyNum(407), PyNum(-740))

StopEmptyFields == MkStop("emptyfields", TColon, T1700, PyNum(30), PyNum(407), PyNum(-740))

\* latitude and longitude are None, as a spreadsheet row without them imports
StopNullCoord == MkStop("nullcoord", PyAbsent, PyAbsent, PyNum(30), PyNone, PyNone)

\* the dict has no latitude and no longitude key
StopNoCoordKey == MkStop("nocoordkey", PyAbsent, PyAbsent, PyNum(30), PyAbsent, PyAbsent)

\* on the equator: latitude 0.0 is a coordinate, and is falsy
StopEquator == MkStop("equator", PyAbsent, PyAbsent, PyNum(30), PyNum(0), PyNum(-740))

\* service_duration is None, as a database row with a null column reads
StopNullService == MkStop("nullservice", PyNone, PyNone, PyNone, PyNum(407), PyNum(-740))

StopCatalog ==
    {StopPlain, StopMorningB, StopMorningC, StopLate, StopEvening, StopNight,
     StopFar, StopInverted, StopMalformed, StopNoColon, StopEmptyFields,
     StopNullCoord, StopNoCoordKey, StopEquator, StopNullService}

RECURSIVE SeqsUpTo(_, _)
\* the sequences over S of length at most n
SeqsUpTo(S, n) ==
    IF n = 0 THEN {<<>>}
    ELSE LET shorter == SeqsUpTo(S, n - 1)
         IN  shorter \cup {Append(q, x) : q \in shorter, x \in S}

StopLists == SeqsUpTo(StopCatalog, MaxStops)

TechPool == <<"tech1", "tech2", "tech3", "tech4">>

TechLists == {SubSeq(TechPool, 1, k) : k \in 0..MaxTechs}

NoDepot == [given |-> FALSE, lat |-> PyNum(0), lng |-> PyNum(0)]

DepotA == [given |-> TRUE, lat |-> PyNum(407), lng |-> PyNum(-740)]

DepotChoices == {NoDepot, DepotA}

----------------------------------------------------------------------------
(* create_data_model *)

Raise(e) == [raised |-> TRUE, err |-> e, val |-> <<>>]

Return(v) == [raised |-> FALSE, err |-> "none", val |-> v]

\* a critical stop is to be reached within two hours of the shift's start
StopWindowByPriority(stop) ==
    IF "priority" \in DOMAIN stop /\ stop.priority = PyNum(5)
    THEN Return(<<DepotStart, DepotStart + 120>>)
    ELSE IF Truthy(GetOr(stop.time_window_start, PyNone))
            /\ Truthy(GetOr(stop.time_window_end, PyNone))
    THEN LET start == time_to_minutes(stop.time_window_start)
             end == time_to_minutes(stop.time_window_end)
         IN  IF ~start.ok THEN Raise(start.err)
             ELSE IF ~end.ok THEN Raise(end.err)
             ELSE Return(<<start.val, end.val>>)
    ELSE Return(<<DepotStart, DepotEnd>>)

\* lines 47-55: the window of one stop; time_to_minutes may raise
StopWindow(stop) ==
    IF Truthy(GetOr(stop.time_window_start, PyNone)) /\ Truthy(GetOr(stop.time_window_end, PyNone))
    THEN LET start == time_to_minutes(stop.time_window_start)
             end == time_to_minutes(stop.time_window_end)
         IN  IF ~start.ok THEN Raise(start.err)
             ELSE IF ~end.ok THEN Raise(end.err)
             ELSE Return(<<start.val, end.val>>)
    ELSE Return(<<DepotStart, DepotEnd>>)

\* lines 66-73: the location of node 0
DepotLocation(stops, depot_location) ==
    IF depot_location.given THEN <<depot_location.lat, depot_location.lng>>
    ELSE IF stops # <<>>
            /\ Truthy(GetOr(stops[1].latitude, PyNone))
            /\ Truthy(GetOr(stops[1].longitude, PyNone))
         THEN <<stops[1].latitude, stops[1].longitude>>
         ELSE <<PyNum(0), PyNum(0)>>

\* the node lists with the depot's entry put after the stops' entries
NodeListDepotLast(depot_entry, stop_entries) == stop_entries \o <<depot_entry>>

\* lines 42-60, 63-79: each list starts with the depot's entry and is
\* appended to once per stop, in the order of the stops
NodeList(depot_entry, stop_entries) == <<depot_entry>> \o stop_entries

create_data_model(stops, technicians, depot_location) ==
    LET windows == [i \in 1..Len(stops) |-> StopWindow(stops[i])]
        bad == {i \in 1..Len(stops) : windows[i].raised}
    IN  IF bad # {}
        THEN Raise(windows[CHOOSE i \in bad : \A j \in bad : i <= j].err)
        ELSE Return(
            [num_vehicles |-> Len(technicians),
             depot |-> 0,
             stops |-> stops,
             technicians |-> technicians,
             time_windows |-> NodeList(<<DepotStart, DepotEnd>>,
                                       [i \in 1..Len(stops) |-> windows[i].val]),
             service_times |-> NodeList(PyNum(0),
                                        [i \in 1..Len(stops) |->
                                           GetOr(stops[i].service_duration,
                                                 PyNum(DefaultService))]),
             locations |-> NodeList(DepotLocation(stops, depot_location),
                                    [i \in 1..Len(stops) |->
                                       <<GetOr(stops[i].latitude, PyNum(0)),
                                         GetOr(stops[i].longitude, PyNum(0))>>])])

\* node-indexed views of a data model (node 0 is the depot)
NumNodes(d) == Len(d.time_windows)

Window(d, node) == d.time_windows[node + 1]

ServiceTime(d, node) == d.service_times[node + 1]

----------------------------------------------------------------------------
(* compute_euclidean_distance_matrix *)

RECURSIVE FloorSqrtScaled(_, _, _)
\* the largest t in lo..hi with 25 t^2 <= 4761 s, i.e. floor(13.8 * sqrt(s)):
\* int(sqrt(s)/10 * 69 / 30 * 60) for a squared distance s in tenths of a degree
\* (4761 s / 25 is computed as 190 s + 11 s / 25 to stay within 32 bits)
FloorSqrtScaled(s, lo, hi) ==
    IF lo >= hi THEN lo
    ELSE LET mid == (lo + hi + 1) \div 2
         IN  IF mid * mid <= 190 * s + (11 * s) \div 25
             THEN FloorSqrtScaled(s, mid, hi)
             ELSE FloorSqrtScaled(s, lo, mid - 1)

\* a directed estimate: signed coordinate differences, no square root
TravelMinutesSigned(from_node, to_node) ==
    LET dlat == from_node[1].val - to_node[1].val
        dlng == from_node[2].val - to_node[2].val
    IN  (138 * (dlat + dlng)) \div 10

\* lines 108-116 for two located nodes
TravelMinutes(from_node, to_node) ==
    LET dlat == from_node[1].val - to_node[1].val
        dlng == from_node[2].val - to_node[2].val
        s == dlat * dlat + dlng * dlng
        reach == (IF dlat < 0 THEN 0 - dlat ELSE dlat) + (IF dlng < 0 THEN 0 - dlng ELSE dlng)
    IN  FloorSqrtScaled(s, 0, 14 * reach)

IsNumber(v) == v.kind = "num"

\* a None coordinate makes lat1 - lat2 a TypeError, for every pair that
\* involves the node (there is one as soon as there are two nodes)
compute_euclidean_distance_matrix(locations) ==
    LET n == Len(locations)
        unlocated == {i \in 1..n : ~(IsNumber(locations[i][1]) /\ IsNumber(locations[i][2]))}
    IN  IF unlocated # {} /\ n >= 2
        THEN Raise("TypeError")
        ELSE Return([from_counter \in 0..(n - 1) |->
                       [to_counter \in 0..(n - 1) |->
                          IF from_counter = to_counter THEN 0
                          ELSE TravelMinutes(locations[from_counter + 1],
                                             locations[to_counter + 1])]])

----------------------------------------------------------------------------
(* optimize_routes: the routing model and its time dimension *)

Max(a, b) == IF a >= b THEN a ELSE b

Min(a, b) == IF a <= b THEN a ELSE b

\* lines 160-164: the transit of the arc from_node -> to_node, the matrix entry
distance_callback(m, from_node, to_node) == m[from_node][to_node]

\* A vehicle's path is the sequence of its stop nodes; position 0 is its
\* start at the depot, positions 1..Len(path) its stops, Len(path) + 1 its end.
NodeAt(d, path, i) == IF i = 0 \/ i = Len(path) + 1 THEN d.depot ELSE path[i]

\* the window is not applied to the stop's cumul variable
StopRangeUnset(d, node) == <<0, Capacity>>

\* the window is applied to the end of the service, not to the arrival
StopRangeOfCompletion(d, node) ==
    <<Max(0, Window(d, node)[1]),
      Min(Capacity, Window(d, node)[2] - ServiceTime(d, node).val)>>

\* lines 183-187: SetRange narrows the 0..Capacity domain of a stop's cumul
\* variable; the solver fails when nothing is left
StopRange(d, node) ==
    <<Max(0, Window(d, node)[1]), Min(Capacity, Window(d, node)[2])>>

\* lines 190-196: only the cumul variable of Start(vehicle) gets the depot window
StartRange(d) ==
    <<Max(0, Window(d, d.depot)[1]), Min(Capacity, Window(d, d.depot)[2])>>

\* the cumul variable of End(vehicle) keeps the dimension's own domain
EndRange(d) == <<0, Capacity>>

RangeAt(d, path, i) ==
    IF i = 0 THEN StartRange(d)
    ELSE IF i = Len(path) + 1 THEN EndRange(d)
    ELSE StopRange(d, path[i])

Transit(d, m, path, i) ==
    distance_callback(m, NodeAt(d, path, i), NodeAt(d, path, i + 1))

\* The least value of every cumul variable of a path under
\*   cumul(next) = cumul(i) + transit(i, next) + slack(i),  0 <= slack(i) <= SlackMax
\* and the ranges: what solution.Min reads once the finalizer has minimised
\* the start and end cumuls (lines 199-205).
MinCumuls(d, m, path) ==
    LET last == Len(path) + 1
        F[i \in 0..last] ==
            IF i = 0 THEN RangeAt(d, path, 0)[1]
            ELSE Max(RangeAt(d, path, i)[1], F[i - 1] + Transit(d, m, path, i - 1))
        M[i \in 0..last] ==
            IF i = last THEN F[last]
            ELSE Max(F[i], M[i + 1] - Transit(d, m, path, i) - SlackMax)
    IN  M

\* the greatest value of every cumul variable of a path
MaxCumuls(d, m, path) ==
    LET last == Len(path) + 1
        G[i \in 0..last] ==
            IF i = 0 THEN RangeAt(d, path, 0)[2]
            ELSE Min(RangeAt(d, path, i)[2],
                     G[i - 1] + Transit(d, m, path, i - 1) + SlackMax)
        H[i \in 0..last] ==
            IF i = last THEN G[last]
            ELSE Min(G[i], H[i + 1] - Transit(d, m, path, i))
    IN  H

\* a path has a schedule iff no cumul variable's domain is empty
PathFeasible(d, m, path) ==
    LET lo == MinCumuls(d, m, path)
        hi == MaxCumuls(d, m, path)
    IN  \A i \in 0..(Len(path) + 1) : lo[i] <= hi[i]

RECURSIVE Perms(_)
Perms(S) ==
    IF S = {} THEN {<<>>}
    ELSE UNION {{<<x>> \o q : q \in Perms(S \ {x})} : x \in S}

RECURSIVE Cuts(_, _)
\* the ways to cut a visiting order into one path per vehicle
Cuts(order, vehicles) ==
    IF vehicles = 0 THEN (IF order = <<>> THEN {<<>>} ELSE {})
    ELSE UNION {{<<SubSeq(order, 1, k)>> \o rest :
                   rest \in Cuts(SubSeq(order, k + 1, Len(order)), vehicles - 1)} :
                k \in 0..Len(order)}

\* stops are optional, as if each were in a disjunction
AssignmentsWithDrops(d) ==
    UNION {Cuts(order, d.num_vehicles) :
             order \in UNION {Perms(S) : S \in SUBSET (1..(NumNodes(d) - 1))}}

\* no disjunction is added, so every stop node is on exactly one vehicle's path
Assignments(d) ==
    UNION {Cuts(order, d.num_vehicles) : order \in Perms(1..(NumNodes(d) - 1))}

\* line 218: the assignments SolveWithParameters may return (none: it returns None)
Solve(d, m) ==
    {[paths |-> a, cumul |-> [v \in 1..Len(a) |-> MinCumuls(d, m, a[v])]] :
       a \in {b \in Assignments(d) : \A v \in 1..Len(b) : PathFeasible(d, m, b[v])}}

----------------------------------------------------------------------------
(* extract_solution *)

\* the time read at the vehicle's start for every stop of its path
ArrivalTimeAtStart(sol, v, i) == sol.cumul[v][0]

\* line 257: solution.Min of the cumul variable of the path's i-th position
ArrivalTime(sol, v, i) == sol.cumul[v][i]

\* lines 254-260
StopInfo(d, sol, v, i) ==
    LET node_index == sol.paths[v][i]
    IN  [stop_index |-> node_index - 1,
         stop_data |-> d.stops[node_index],
         arrival_time |-> ArrivalTime(sol, v, i),
         time_window |-> Window(d, node_index),
         service_time |-> ServiceTime(d, node_index)]

\* the arcs up to the last stop only, the return to the depot left out
RouteDistanceOneWay(d, m, path) ==
    LET acc[i \in 0..Len(path)] ==
            IF i = 0 THEN 0 ELSE acc[i - 1] + Transit(d, m, path, i - 1)
    IN  acc[Len(path)]

\* lines 263-269: the matrix entries of the arcs start -> ... -> end
RouteDistance(d, m, path) ==
    LET last == Len(path) + 1
        acc[i \in 0..last] ==
            IF i = 0 THEN 0 ELSE acc[i - 1] + Transit(d, m, path, i - 1)
    IN  acc[last]

\* lines 272-273: solution.Min of the cumul variable of End(vehicle)
RouteTime(sol, v) == sol.cumul[v][Len(sol.paths[v]) + 1]

\* every route labelled with the first vehicle and its technician
RouteOfFirstVehicle(d, m, sol, v) ==
    [vehicle_id |-> 0,
     technician |-> d.technicians[1],
     stops |-> [i \in 1..Len(sol.paths[v]) |-> StopInfo(d, sol, v, i)],
     total_distance |-> RouteDistance(d, m, sol.paths[v]),
     total_time |-> RouteTime(sol, v)]

\* lines 236-276: the route of vehicle_id = v - 1
RouteOf(d, m, sol, v) ==
    [vehicle_id |-> v - 1,
     technician |-> d.technicians[v],
     stops |-> [i \in 1..Len(sol.paths[v]) |-> StopInfo(d, sol, v, i)],
     total_distance |-> RouteDistance(d, m, sol.paths[v]),
     total_time |-> RouteTime(sol, v)]

\* the filter left out: every vehicle's route is kept
KeepEveryRoute(route) == TRUE

\* line 279: len(route['stops']) > 0
HasStops(route) == Len(route.stops) > 0

RECURSIVE SumOver(_, _)
SumOver(q, field) ==
    IF q = <<>> THEN 0
    ELSE (IF field = "total_distance" THEN Head(q).total_distance ELSE Head(q).total_time)
         + SumOver(Tail(q), field)

extract_solution(d, m, sol) ==
    LET all == [v \in 1..d.num_vehicles |-> RouteOf(d, m, sol, v)]
        routes == SelectSeq(all, HasStops)
    IN  [routes |-> routes,
         total_distance |-> SumOver(routes, "total_distance"),
         total_time |-> SumOver(routes, "total_time"),
         num_vehicles_used |-> Len(SelectSeq(routes, HasStops)),
         success |-> TRUE]

----------------------------------------------------------------------------
(* One optimisation request: create_data_model, then optimize_routes *)

VARIABLES
    phase,            \* where the request is
    stops,            \* the stops given to create_data_model
    technicians,      \* the technicians given to create_data_model
    depot_location,   \* the optional depot coordinate
    data,             \* the data model, once built
    distance_matrix,  \* optimize_routes' matrix, once computed
    solution,         \* the solver's assignment, when it found one
    result,           \* the dict optimize_routes returned
    error,            \* the exception that ended the request
    time_limit,       \* search_parameters.time_limit.seconds, once set
    max_time_limit,   \* the page's 'Max solve time (sec)' input
    heap,             \* the result dicts stored so far; a dict's identity is
                      \* its position
    optimized_routes, \* session_state.optimized_routes: 0 for None, else the
                      \* position of the stored dict in heap
    selected_stops,   \* session_state.selected_stops
    message,          \* what the button handler reported last
    rendered,         \* what was last drawn from the stored result
    peer,             \* a second request, run at the same time as the first
    time_input,       \* the minutes or the time string a round trip starts from
    time_text,        \* the time string that is parsed
    time_minutes      \* what time_to_minutes made of time_text

\* the state of one request
requestVars == <<phase, stops, technicians, depot_location, data, distance_matrix,
                 solution, result, error, time_limit>>

\* the state of the operations page
pageVars == <<max_time_limit, heap, optimized_routes, selected_stops, message,
              rendered>>

\* the state of the second request and of the time round trip
sideVars == <<peer, time_input, time_text, time_minutes>>

vars == <<phase, stops, technicians, depot_location, data, distance_matrix,
          solution, result, error, time_limit, max_time_limit, heap,
          optimized_routes, selected_stops, message, rendered, peer,
          time_input, time_text, time_minutes>>

NoData ==
    [num_vehicles |-> 0, depot |-> 0, stops |-> <<>>, technicians |-> <<>>,
     time_windows |-> <<>>, service_times |-> <<>>, locations |-> <<>>]

NoSolution == [paths |-> <<>>, cumul |-> <<>>]

\* value=30 of the 'Max solve time (sec)' input
DefaultMaxTimeLimit == 30

\* line 215: search_parameters.time_limit.seconds = 30
SearchTimeLimit == 30

NothingRendered == [view |-> "none", content |-> <<>>]

NoResult ==
    [routes |-> <<>>, total_distance |-> 0, total_time |-> 0,
     num_vehicles_used |-> 0, success |-> FALSE]

\* no second request
NoPeer ==
    [phase |-> "NoRequest", stops |-> <<>>, technicians |-> <<>>,
     depot_location |-> NoDepot, data |-> NoData, distance_matrix |-> <<>>,
     solution |-> NoSolution, result |-> NoResult, error |-> "none"]

\* no time is being converted
NoTimeInput == [kind |-> "none", minutes |-> 0, hours |-> 0]

\* time_to_minutes has not been applied
NotParsed == [ok |-> FALSE, val |-> 0, err |-> "not parsed"]

\* before the first request, with nothing stored in the session
RequestAndPageInit ==
    /\ phase = "NoRequest"
    /\ stops = <<>>
    /\ technicians = <<>>
    /\ depot_location = NoDepot
    /\ data = NoData
    /\ distance_matrix = <<>>
    /\ solution = NoSolution
    /\ result = NoResult
    /\ error = "none"
    /\ time_limit = 0
    /\ max_time_limit = DefaultMaxTimeLimit
    /\ heap = <<>>
    /\ optimized_routes = 0
    /\ selected_stops = <<>>
    /\ message = "none"
    /\ rendered = NothingRendered

Init ==
    /\ RequestAndPageInit
    /\ peer = NoPeer
    /\ time_input = NoTimeInput
    /\ time_text = PyNone
    /\ time_minutes = NotParsed

\* create_data_model(stops, technicians, depot_location); the solver is Idle
\* once the data model exists
CreateDataModel ==
    /\ phase = "NoRequest"
    /\ \E s \in StopLists, t \in TechLists, dl \in DepotChoices :
         LET built == create_data_model(s, t, dl)
         IN  /\ stops' = s
             /\ technicians' = t
             /\ depot_location' = dl
             /\ IF built.raised
                THEN phase' = "BuilderRaised" /\ error' = built.err /\ data' = data
                ELSE phase' = "Idle" /\ error' = error /\ data' = built.val
    /\ UNCHANGED <<distance_matrix, solution, result, time_limit>>
    /\ UNCHANGED pageVars
    /\ UNCHANGED sideVars

\* optimize_routes, lines 147-169: index manager, routing model, distance
\* matrix, arc cost
BeginOptimize ==
    /\ phase = "Idle"
    /\ data.num_vehicles > 0
    /\ LET m == compute_euclidean_distance_matrix(data.locations)
       IN  IF m.raised
           THEN phase' = "SolverRaised" /\ error' = m.err
                /\ distance_matrix' = distance_matrix
           ELSE phase' = "BuildingGraph" /\ error' = error
                /\ distance_matrix' = m.val
    /\ UNCHANGED <<stops, technicians, depot_location, data, solution, result,
                   time_limit>>
    /\ UNCHANGED pageVars
    /\ UNCHANGED sideVars

\* a routing model without vehicles is outside the library's contract: the
\* constructor may reject it or build a model no stop can be served in
BeginOptimizeNoVehicle ==
    /\ phase = "Idle"
    /\ data.num_vehicles = 0
    /\ \/ /\ phase' = "SolverRaised" /\ error' = "RoutingError"
          /\ distance_matrix' = distance_matrix
       \/ LET m == compute_euclidean_distance_matrix(data.locations)
          IN  IF m.raised
              THEN phase' = "SolverRaised" /\ error' = m.err
                   /\ distance_matrix' = distance_matrix
              ELSE phase' = "BuildingGraph" /\ error' = error
                   /\ distance_matrix' = m.val
    /\ UNCHANGED <<stops, technicians, depot_location, data, solution, result,
                   time_limit>>
    /\ UNCHANGED pageVars
    /\ UNCHANGED sideVars

\* line 187: SetRange(time_window[0], time_window[1]) on a variable whose
\* domain is 0..Capacity raises "CP Solver fail" when the two do not meet
SetRangeFails(d) ==
    \E node \in 1..(NumNodes(d) - 1) : StopRange(d, node)[1] > StopRange(d, node)[2]

\* optimize_routes, lines 171-215: the time dimension, the ranges of the
\* cumul variables, the finalizer, the search parameters
AddTimeDimension ==
    /\ phase = "BuildingGraph"
    /\ IF SetRangeFails(data)
       THEN phase' = "SolverRaised" /\ error' = "CP Solver fail"
            /\ time_limit' = time_limit
       ELSE phase' = "Searching" /\ error' = error
            /\ time_limit' = SearchTimeLimit
    /\ UNCHANGED <<stops, technicians, depot_location, data, distance_matrix,
                   solution, result>>
    /\ UNCHANGED pageVars
    /\ UNCHANGED sideVars

\* optimize_routes, lines 218-222: a solution was found and is extracted
SearchFound ==
    /\ phase = "Searching"
    /\ \E sol \in Solve(data, distance_matrix) :
         /\ solution' = sol
         /\ result' = extract_solution(data, distance_matrix, sol)
    /\ phase' = "FeasibleFound"
    /\ UNCHANGED <<stops, technicians, depot_location, data, distance_matrix, error,
                   time_limit>>
    /\ UNCHANGED pageVars
    /\ UNCHANGED sideVars

\* optimize_routes, lines 223-225: no solution, None is returned
SearchFailed ==
    /\ phase = "Searching"
    /\ Solve(data, distance_matrix) = {}
    /\ phase' = "Infeasible"
    /\ UNCHANGED <<stops, technicians, depot_location, data, distance_matrix,
                   solution, result, error, time_limit>>
    /\ UNCHANGED pageVars
    /\ UNCHANGED sideVars

Next ==
    \/ CreateDataModel
    \/ BeginOptimize
    \/ BeginOptimizeNoVehicle
    \/ AddTimeDimension
    \/ SearchFound
    \/ SearchFailed

Spec == Init /\ [][Next]_vars

----------------------------------------------------------------------------
(* Consumers of a result: format_route_for_display, the route map, the    *)
(* route details tab                                                      *)

DigitChar(n) == <<"0", "1", "2", "3", "4", "5", "6", "7", "8", "9">>[n + 1]

RECURSIVE Decimal(_)
\* str(n) for n >= 0
Decimal(n) ==
    IF n < 10 THEN <<DigitChar(n)>>
    ELSE Decimal(n \div 10) \o <<DigitChar(n % 10)>>

\* f"{n:02d}" for n >= 0
TwoDigits(n) == IF n < 10 THEN <<"0">> \o Decimal(n) ELSE Decimal(n)

\* the hour shown on a twelve-hour clock
FormatArrivalTwelveHour(arrival_min) ==
    TwoDigits((arrival_min \div 60) % 12) \o <<":">> \o TwoDigits(arrival_min % 60)

\* f"{arrival_min // 60:02d}:{arrival_min % 60:02d}"
FormatArrival(arrival_min) ==
    TwoDigits(arrival_min \div 60) \o <<":">> \o TwoDigits(arrival_min % 60)

\* f"{total_time} min"
FormatMinutes(total_time) == Decimal(total_time) \o <<" ", "m", "i", "n">>

\* the rows built from a route's stops: order, name, arrival, service time
StopRows(route) ==
    [i \in 1..Len(route.stops) |->
       [order |-> i,
        name |-> route.stops[i].stop_data.name,
        arrival |-> FormatArrival(route.stops[i].arrival_time),
        service_time |-> route.stops[i].service_time]]

format_route_for_display(route_result) ==
    IF ~route_result.success THEN PyNone
    ELSE LET used == SelectSeq(route_result.routes, HasStops)
         IN  [r \in 1..Len(used) |->
                [technician |-> used[r].technician,
                 num_stops |-> Len(used[r].stops),
                 total_time |-> FormatMinutes(used[r].total_time),
                 stops |-> StopRows(used[r])]]

\* the markers of one route: its stops that have a latitude and a longitude,
\* numbered by their place in the route
MarkersOf(route) ==
    LET tagged == [i \in 1..Len(route.stops) |-> [order |-> i, info |-> route.stops[i]]]
        Located(t) ==
            /\ Truthy(GetOr(t.info.stop_data.latitude, PyNone))
            /\ Truthy(GetOr(t.info.stop_data.longitude, PyNone))
        shown == SelectSeq(tagged, Located)
    IN  [k \in 1..Len(shown) |->
           [location |-> <<shown[k].info.stop_data.latitude,
                           shown[k].info.stop_data.longitude>>,
            order |-> shown[k].order,
            name |-> shown[k].info.stop_data.name,
            arrival |-> FormatArrival(shown[k].info.arrival_time)]]

\* the map: None without a successful result or without any coordinate in
\* stops_data, else the markers and the legend entry of every route
visualize_optimized_routes(route_result, stops_data) ==
    LET HasLat(stop) == Truthy(GetOr(stop.latitude, PyNone))
        HasLng(stop) == Truthy(GetOr(stop.longitude, PyNone))
    IN  IF ~route_result.success THEN PyNone
        ELSE IF SelectSeq(stops_data, HasLat) = <<>> \/ SelectSeq(stops_data, HasLng) = <<>>
        THEN PyNone
        ELSE LET used == SelectSeq(route_result.routes, HasStops)
             IN  [r \in 1..Len(used) |->
                    [technician |-> used[r].technician,
                     num_stops |-> Len(used[r].stops),
                     markers |-> MarkersOf(used[r])]]

\* the expanders of the route details tab: one table and two metrics per route
RouteDetails(route_result) ==
    LET used == SelectSeq(route_result.routes, HasStops)
    IN  [r \in 1..Len(used) |->
           [technician |-> used[r].technician,
            rows |-> StopRows(used[r]),
            total_time |-> FormatMinutes(used[r].total_time),
            number_of_stops |-> Len(used[r].stops)]]

----------------------------------------------------------------------------
(* The operations page: the Optimize Routes button and the tabs that show *)
(* the stored result                                                      *)

\* successful runs the page is followed through
MaxRuns == 2

\* the stops and technicians the page fetched from the database
PageStopsData == <<StopPlain, StopNight, StopInverted>>

PageTechnicians == SubSeq(TechPool, 1, 2)

\* values of the 'Max solve time (sec)' input: min_value, value, max_value
TimeLimitChoices == {10, DefaultMaxTimeLimit, 300}

RECURSIVE Ascending(_)
\* the members of a set of numbers, smallest first
Ascending(S) ==
    IF S = {} THEN <<>>
    ELSE LET least == CHOOSE x \in S : \A y \in S : x <= y
         IN  <<least>> \o Ascending(S \ {least})

\* what a multiselect over range(n) can return (1-based, in the order of the
\* options)
Selections(n) == {Ascending(S) : S \in SUBSET (1..n)}

\* [options[i] for i in selected]
Pick(options, selected) == [k \in 1..Len(selected) |-> options[selected[k]]]

\* the result dict overwrites the dict stored last
StoreResultInPlace(h, r) ==
    IF h = <<>> THEN <<r>> ELSE [h EXCEPT ![Len(h)] = r]

\* session_state.optimized_routes = result: the session refers to the dict
\* optimize_routes just returned, a new object
StoreResult(h, r) == Append(h, r)

\* the handler's locals are gone when it returns
RequestEnds ==
    /\ phase' = "NoRequest"
    /\ stops' = <<>>
    /\ technicians' = <<>>
    /\ depot_location' = NoDepot
    /\ data' = NoData
    /\ distance_matrix' = <<>>
    /\ solution' = NoSolution
    /\ result' = NoResult
    /\ error' = "none"
    /\ time_limit' = 0

\* the button is pressed: the settings are read, the two guards are applied
\* and create_data_model is called without a depot
OptimizeClicked ==
    /\ phase = "NoRequest"
    /\ Len(heap) < MaxRuns
    /\ \E use_all_stops \in BOOLEAN, selected_stops_indices \in Selections(Len(PageStopsData)),
          use_all_techs \in BOOLEAN, selected_tech_indices \in Selections(Len(PageTechnicians)),
          limit \in TimeLimitChoices :
         LET stops_to_optimize ==
                 IF use_all_stops THEN PageStopsData
                 ELSE Pick(PageStopsData, selected_stops_indices)
             techs_to_use ==
                 IF use_all_techs THEN PageTechnicians
                 ELSE Pick(PageTechnicians, selected_tech_indices)
             built == create_data_model(stops_to_optimize, techs_to_use, NoDepot)
         IN  /\ max_time_limit' = limit
             /\ IF stops_to_optimize = <<>>
                THEN /\ message' = "Please select at least one stop"
                     /\ UNCHANGED requestVars
                ELSE IF techs_to_use = <<>>
                THEN /\ message' = "Please select at least one technician"
                     /\ UNCHANGED requestVars
                ELSE /\ message' = "none"
                     /\ stops' = stops_to_optimize
                     /\ technicians' = techs_to_use
                     /\ IF built.raised
                        THEN phase' = "BuilderRaised" /\ error' = built.err /\ data' = data
                        ELSE phase' = "Idle" /\ error' = error /\ data' = built.val
                     /\ UNCHANGED <<depot_location, distance_matrix, solution, result,
                                    time_limit>>
    /\ rendered' = NothingRendered
    /\ UNCHANGED <<heap, optimized_routes, selected_stops>>
    /\ UNCHANGED sideVars

\* result and result.get('success'): the result and the stops it was
\* computed from are put into the session
StoreOptimizedRoutes ==
    /\ phase = "FeasibleFound"
    /\ result.success
    /\ heap' = StoreResult(heap, result)
    /\ optimized_routes' = Len(heap')
    /\ selected_stops' = stops
    /\ message' = "Optimization complete"
    /\ RequestEnds
    /\ UNCHANGED <<max_time_limit, rendered>>
    /\ UNCHANGED sideVars

\* the failure branch also forgets what an earlier run stored
ReportOptimizationFailedClearing ==
    /\ phase = "Infeasible"
    /\ message' = "Optimization failed"
    /\ optimized_routes' = 0
    /\ selected_stops' = <<>>
    /\ RequestEnds
    /\ UNCHANGED <<max_time_limit, heap, rendered>>
    /\ UNCHANGED sideVars

\* optimize_routes returned None
ReportOptimizationFailed ==
    /\ phase = "Infeasible"
    /\ message' = "Optimization failed"
    /\ RequestEnds
    /\ UNCHANGED <<max_time_limit, heap, optimized_routes, selected_stops, rendered>>
    /\ UNCHANGED sideVars

\* the except branch records the stops of the run that raised
CatchExceptionKeepingSelection ==
    /\ phase \in {"BuilderRaised", "SolverRaised"}
    /\ message' = "Error during optimization"
    /\ selected_stops' = stops
    /\ RequestEnds
    /\ UNCHANGED <<max_time_limit, heap, optimized_routes, rendered>>
    /\ UNCHANGED sideVars

\* except Exception as e
CatchException ==
    /\ phase \in {"BuilderRaised", "SolverRaised"}
    /\ message' = "Error during optimization"
    /\ RequestEnds
    /\ UNCHANGED <<max_time_limit, heap, optimized_routes, selected_stops, rendered>>
    /\ UNCHANGED sideVars

\* the Route Map tab
RenderRouteMap ==
    /\ phase = "NoRequest"
    /\ optimized_routes # 0
    /\ selected_stops # <<>>
    /\ rendered' = [view |-> "map",
                    content |-> visualize_optimized_routes(heap[optimized_routes],
                                                           selected_stops)]
    /\ UNCHANGED requestVars
    /\ UNCHANGED <<max_time_limit, heap, optimized_routes, selected_stops, message>>
    /\ UNCHANGED sideVars

\* the Route Details tab
RenderRouteDetails ==
    /\ phase = "NoRequest"
    /\ optimized_routes # 0
    /\ rendered' = [view |-> "details",
                    content |-> RouteDetails(heap[optimized_routes])]
    /\ UNCHANGED requestVars
    /\ UNCHANGED <<max_time_limit, heap, optimized_routes, selected_stops, message>>
    /\ UNCHANGED sideVars

\* format_route_for_display applied to the stored result
FormatRouteForDisplay ==
    /\ phase = "NoRequest"
    /\ optimized_routes # 0
    /\ rendered' = [view |-> "formatted",
                    content |-> format_route_for_display(heap[optimized_routes])]
    /\ UNCHANGED requestVars
    /\ UNCHANGED <<max_time_limit, heap, optimized_routes, selected_stops, message>>
    /\ UNCHANGED sideVars

PageNext ==
    \/ OptimizeClicked
    \/ BeginOptimize
    \/ AddTimeDimension
    \/ SearchFound
    \/ SearchFailed
    \/ StoreOptimizedRoutes
    \/ ReportOptimizationFailed
    \/ CatchException
    \/ RenderRouteMap
    \/ RenderRouteDetails
    \/ FormatRouteForDisplay

PageSpec == Init /\ [][PageNext]_vars

----------------------------------------------------------------------------

(* Scenario A: one technician, three stops that share one 8-hour window   *)

\* 09:00 to 17:00
ScenarioStop(nm, lat, lng) == MkStop(nm, T0900, T1700, PyNum(30), PyNum(lat), PyNum(lng))

\* three stops within 41 minutes of each other, and two that lie 317 minutes
\* north and south of them, 634 minutes apart
ScenarioCatalog ==
    {ScenarioStop("a1", 407, -740), ScenarioStop("a2", 408, -740),
     ScenarioStop("a3", 407, -737), ScenarioStop("north", 430, -740),
     ScenarioStop("south", 384, -740)}

\* the lists of three different stops
ScenarioLists ==
    {q \in ScenarioCatalog \X ScenarioCatalog \X ScenarioCatalog :
       q[1] # q[2] /\ q[1] # q[3] /\ q[2] # q[3]}

\* create_data_model(stops, technicians, depot_location) for a given request
RequestFrom(s, t, dl) ==
    LET built == create_data_model(s, t, dl)
    IN  /\ phase = "NoRequest"
        /\ stops' = s
        /\ technicians' = t
        /\ depot_location' = dl
        /\ IF built.raised
           THEN phase' = "BuilderRaised" /\ error' = built.err /\ data' = data
           ELSE phase' = "Idle" /\ error' = error /\ data' = built.val
        /\ UNCHANGED <<distance_matrix, solution, result, time_limit>>
        /\ UNCHANGED pageVars

\* a request of scenario A
CreateScenarioDataModel ==
    /\ \E s \in ScenarioLists, dl \in DepotChoices :
         RequestFrom(s, SubSeq(TechPool, 1, 1), dl)
    /\ UNCHANGED sideVars

ScenarioNext ==
    \/ CreateScenarioDataModel
    \/ BeginOptimize
    \/ AddTimeDimension
    \/ SearchFound
    \/ SearchFailed

ScenarioSpec == Init /\ [][ScenarioNext]_vars

----------------------------------------------------------------------------

(* Two requests at the same time                                          *)

\* a stop with the page's 'Priority' value (1..5) among its keys
WithPriority(stop, p) ==
    [f \in DOMAIN stop \cup {"priority"} |->
       IF f = "priority" THEN PyNum(p) ELSE stop[f]]

\* stop lists that differ in priority only, in their stops, or in feasibility
ConcurrentStopLists ==
    {<<WithPriority(StopPlain, 1)>>,
     <<WithPriority(StopPlain, 5)>>,
     <<WithPriority(StopNight, 1)>>,
     <<WithPriority(StopPlain, 1), WithPriority(StopLate, 1)>>,
     <<WithPriority(StopPlain, 5), WithPriority(StopLate, 1)>>}

\* the arguments of one request
ConcurrentRequests ==
    [stops : ConcurrentStopLists,
     technicians : {SubSeq(TechPool, 1, 1), SubSeq(TechPool, 1, 2)},
     depot_location : DepotChoices]

\* the first request is made
SubmitRequest ==
    /\ \E rq \in ConcurrentRequests :
         RequestFrom(rq.stops, rq.technicians, rq.depot_location)
    /\ UNCHANGED sideVars

\* what a step of the second request leaves alone
PeerFrame ==
    /\ UNCHANGED requestVars
    /\ UNCHANGED pageVars
    /\ UNCHANGED <<time_input, time_text, time_minutes>>

\* the data model most recently built by either request
LastBuiltData == IF data # NoData THEN data ELSE peer.data

\* optimize_routes reads the data model it was given as its argument
PeerData == peer.data

\* the second request: create_data_model
PeerSubmit ==
    /\ peer.phase = "NoRequest"
    /\ \E rq \in ConcurrentRequests :
         LET built == create_data_model(rq.stops, rq.technicians, rq.depot_location)
         IN  peer' = [peer EXCEPT
                        !.stops = rq.stops,
                        !.technicians = rq.technicians,
                        !.depot_location = rq.depot_location,
                        !.phase = IF built.raised THEN "BuilderRaised" ELSE "Idle",
                        !.error = IF built.raised THEN built.err ELSE @,
                        !.data = IF built.raised THEN @ ELSE built.val]
    /\ PeerFrame

\* the second request: optimize_routes, lines 147-169
PeerBeginOptimize ==
    /\ peer.phase = "Idle"
    /\ PeerData.num_vehicles > 0
    /\ LET m == compute_euclidean_distance_matrix(PeerData.locations)
       IN  peer' = [peer EXCEPT
                      !.phase = IF m.raised THEN "SolverRaised" ELSE "BuildingGraph",
                      !.error = IF m.raised THEN m.err ELSE @,
                      !.distance_matrix = IF m.raised THEN @ ELSE m.val]
    /\ PeerFrame

\* the second request: optimize_routes, lines 171-215
PeerAddTimeDimension ==
    /\ peer.phase = "BuildingGraph"
    /\ peer' = [peer EXCEPT
                  !.phase = IF SetRangeFails(PeerData) THEN "SolverRaised"
                            ELSE "Searching",
                  !.error = IF SetRangeFails(PeerData) THEN "CP Solver fail" ELSE @]
    /\ PeerFrame

\* the second request: optimize_routes, lines 218-222
PeerSearchFound ==
    /\ peer.phase = "Searching"
    /\ \E sol \in Solve(PeerData, peer.distance_matrix) :
         peer' = [peer EXCEPT
                    !.solution = sol,
                    !.result = extract_solution(PeerData, peer.distance_matrix, sol),
                    !.phase = "FeasibleFound"]
    /\ PeerFrame

\* the second request: optimize_routes, lines 223-225
PeerSearchFailed ==
    /\ peer.phase = "Searching"
    /\ Solve(PeerData, peer.distance_matrix) = {}
    /\ peer' = [peer EXCEPT !.phase = "Infeasible"]
    /\ PeerFrame

ConcurrentNext ==
    \/ SubmitRequest
    \/ BeginOptimize
    \/ AddTimeDimension
    \/ SearchFound
    \/ SearchFailed
    \/ PeerSubmit
    \/ PeerBeginOptimize
    \/ PeerAddTimeDimension
    \/ PeerSearchFound
    \/ PeerSearchFailed

ConcurrentSpec == Init /\ [][ConcurrentNext]_vars

----------------------------------------------------------------------------

(* Times: format_route_for_display's HH:MM and time_to_minutes            *)

\* two decimal digits, written out
DigitPair(n) == <<DigitChar(n \div 10), DigitChar(n % 10)>>

\* 'HH:MM'
ClockText(hh, mm) == DigitPair(hh) \o <<":">> \o DigitPair(mm)

\* 'HH:MM:SS'
ClockTextSeconds(hh, mm, ss) == ClockText(hh, mm) \o <<":">> \o DigitPair(ss)

\* an arrival time in minutes from midnight, or a well-formed time string
TimeInit ==
    /\ RequestAndPageInit
    /\ peer = NoPeer
    /\ time_minutes = NotParsed
    /\ \/ /\ time_text = PyNone
          /\ \E m \in 0..1439 :
               time_input = [kind |-> "minutes", minutes |-> m, hours |-> 0]
       \/ \E hh \in 0..23, mm \in 0..59 :
            /\ time_input = [kind |-> "string", minutes |-> mm, hours |-> hh]
            /\ \/ time_text = PyStr(ClockText(hh, mm))
               \/ \E ss \in {0, 30, 59} : time_text = PyStr(ClockTextSeconds(hh, mm, ss))

\* the arrival time is formatted for display
FormatArrivalTime ==
    /\ time_input.kind = "minutes"
    /\ time_text = PyNone
    /\ time_text' = PyStr(FormatArrival(time_input.minutes))
    /\ UNCHANGED <<peer, time_input, time_minutes>>
    /\ UNCHANGED requestVars
    /\ UNCHANGED pageVars

\* time_to_minutes(time_text)
ParseTime ==
    /\ time_text.kind = "str"
    /\ time_minutes = NotParsed
    /\ time_minutes' = time_to_minutes(time_text)
    /\ UNCHANGED <<peer, time_input, time_text>>
    /\ UNCHANGED requestVars
    /\ UNCHANGED pageVars

TimeNext ==
    \/ FormatArrivalTime
    \/ ParseTime

TimeSpec == TimeInit /\ [][TimeNext]_vars

----------------------------------------------------------------------------

(* Properties *)

Returned == phase = "FeasibleFound"

\* a request with at least one stop and one technician, the only kind the
\* operations page lets through (src/pages/operations.py, lines 285-288)
NonEmptyRequest == stops # <<>> /\ technicians # <<>>

Vehicles == 1..Len(solution.paths)

\* the arcs of vehicle v's path, named by the position they leave
Arcs(v) == 0..Len(solution.paths[v])

\* the stop visits of the emitted routes, as <<route, position>>
Visits ==
    UNION {{<<r, i>> : i \in 1..Len(result.routes[r].stops)} : r \in 1..Len(result.routes)}

Visit(x) == result.routes[x[1]].stops[x[2]]

\* C1: in every successful result every stop visit's arrival_time lies within
\* the window [earliest, latest] the Problem Builder gave the stop's node.
C1_WindowFeasibility ==
    Returned =>
        \A x \in Visits :
            LET w == Window(data, Visit(x).stop_index + 1)
            IN  w[1] <= Visit(x).arrival_time /\ Visit(x).arrival_time <= w[2]

\* a successful route of two stops, one of them with a window of its own
C1_Witness ==
    /\ Returned
    /\ \E x \in Visits :
         /\ Len(result.routes[x[1]].stops) = 2
         /\ Visit(x).time_window = <<1010, 1020>>
         /\ Visit(x).arrival_time = 1010

\* C2: in every successful result every input stop index 0..len(stops)-1
\* appears in exactly one emitted route, exactly once.
C2_FullCoverage ==
    Returned =>
        \A idx \in 0..(Len(stops) - 1) :
            Cardinality({x \in Visits : Visit(x).stop_index = idx}) = 1

\* a successful result whose two stops are on two different routes
C2_Witness ==
    /\ Returned
    /\ Len(stops) = 2
    /\ Len(result.routes) = 2

\* no assignment of the stops to the vehicles has a schedule within the
\* windows, the slack budget and the capacity
NoFeasibleAssignment == Solve(data, distance_matrix) = {}

\* C3: when no assignment satisfies the time windows and the slack/span
\* limits, optimize_routes returns failure (it does not raise) and no routes.
\* Stated for requests with at least one stop and one technician.
C3_InfeasibleIsReported ==
    (/\ phase \in {"FeasibleFound", "Infeasible", "SolverRaised"}
     /\ NonEmptyRequest
     /\ DOMAIN distance_matrix # {}
     /\ NoFeasibleAssignment)
        => phase = "Infeasible" /\ result.routes = <<>>

\* C4: create_data_model signals a ConfigurationError for an empty stop list
\* or zero technicians, so optimize_routes never runs with zero stops or
\* zero vehicles.
C4_EmptyInputRejected ==
    (phase # "NoRequest" /\ (stops = <<>> \/ technicians = <<>>))
        => phase = "BuilderRaised" /\ error = "ConfigurationError"

\* C5: a stop whose parsed window has earliest > latest is rejected before
\* the solver: no data model holds a node with earliest > latest.
\* Stated for requests with at least one stop and one technician.
C5_InvertedWindowRejected ==
    (/\ phase \in {"Idle", "BuildingGraph", "Searching", "FeasibleFound",
                   "Infeasible", "SolverRaised"}
     /\ NonEmptyRequest)
        => \A node \in 1..(NumNodes(data) - 1) :
               Window(data, node)[1] <= Window(data, node)[2]

\* a well-formed time string: HH:MM or HH:MM:SS, digits only
WellFormedTime(v) ==
    /\ v.kind = "str"
    /\ LET parts == Split(v.chars)
       IN  /\ Len(parts) \in {2, 3}
           /\ \A i \in 1..Len(parts) : AllDigits(parts[i])

\* a time string with no ':' separator, a non-numeric field or an empty field
MalformedTime(v) == v.kind = "str" /\ v.chars # <<>> /\ ~WellFormedTime(v)

HasMalformedTime(stop) ==
    MalformedTime(stop.time_window_start) \/ MalformedTime(stop.time_window_end)

\* C6: for a stop with a malformed time_window_start or time_window_end the
\* Problem Builder does not raise and gives the node the window (480, 1020).
\* Stated for requests with at least one stop and one technician.
C6_MalformedFallsBack ==
    (/\ phase # "NoRequest"
     /\ NonEmptyRequest
     /\ \E i \in 1..Len(stops) : HasMalformedTime(stops[i]))
        => /\ phase # "BuilderRaised"
           /\ \A i \in 1..Len(stops) :
                HasMalformedTime(stops[i]) => Window(data, i) = <<480, 1020>>

\* C7: in every successful result, for consecutive nodes a then b of a
\* vehicle's path, time(b) >= time(a) + travel_time(a, b) + service_time(b).
C7_ArcIncludesService ==
    Returned =>
        \A v \in Vehicles : \A i \in Arcs(v) :
            solution.cumul[v][i + 1] >=
                solution.cumul[v][i]
                + distance_matrix[NodeAt(data, solution.paths[v], i)]
                                 [NodeAt(data, solution.paths[v], i + 1)]
                + ServiceTime(data, NodeAt(data, solution.paths[v], i + 1)).val

\* C8: in every successful result the cumulative time at every vehicle's
\* depot start and at its depot end lies within [480, 1020].
C8_DepotWithinWorkingWindow ==
    Returned =>
        \A v \in Vehicles :
            LET start == solution.cumul[v][0]
                end == solution.cumul[v][Len(solution.paths[v]) + 1]
            IN  /\ 480 <= start /\ start <= 1020
                /\ 480 <= end /\ end <= 1020

\* the waiting on the arc that leaves position i of vehicle v's path
Waiting(v, i) ==
    solution.cumul[v][i + 1]
    - (solution.cumul[v][i]
       + distance_matrix[NodeAt(data, solution.paths[v], i)]
                        [NodeAt(data, solution.paths[v], i + 1)])

\* C9: in every successful result, for consecutive nodes a then b of a
\* vehicle's path, the time at b exceeds the time at a plus the arc's time
\* increment by at most 30 minutes.
C9_WaitingBounded ==
    Returned => \A v \in Vehicles : \A i \in Arcs(v) : Waiting(v, i) <= 30

\* a successful result in which a vehicle waits, and uses the whole budget
C9_Witness ==
    /\ Returned
    /\ \E v \in Vehicles : \E i \in Arcs(v) : Waiting(v, i) = 30

\* C10: in every successful result every vehicle's elapsed time, depot-end
\* time minus depot-start time, is at most 1440 minutes.
C10_SpanBounded ==
    Returned =>
        \A v \in Vehicles :
            solution.cumul[v][Len(solution.paths[v]) + 1] - solution.cumul[v][0] <= 1440

\* a successful result with a vehicle that was out for 82 minutes or more
C10_Witness ==
    /\ Returned
    /\ \E v \in Vehicles :
         solution.cumul[v][Len(solution.paths[v]) + 1] - solution.cumul[v][0] >= 82

\* C11: a stop without a coordinate (key absent, or None) does not block the
\* request: the distance matrix is computed over every node and no TypeError
\* ends optimize_routes.  Stated for requests with at least one stop and one
\* technician, once optimize_routes is past its matrix computation.
Unlocated(stop) ==
    \/ stop.latitude.kind \in {"absent", "none"}
    \/ stop.longitude.kind \in {"absent", "none"}

C12_MatrixShape ==
    LET nodes == 0..(Len(data.locations) - 1)
    IN  (DOMAIN distance_matrix # {})
        => /\ DOMAIN distance_matrix = nodes
           /\ \A i \in nodes :
                /\ DOMAIN distance_matrix[i] = nodes
                /\ distance_matrix[i][i] = 0
                /\ \A j \in nodes :
                     /\ distance_matrix[i][j] \in Nat
                     /\ distance_matrix[i][j] = distance_matrix[j][i]

\* a matrix over the depot and two stops with a non-zero travel time
C12_Witness ==
    /\ DOMAIN distance_matrix = 0..2
    /\ distance_matrix[1][2] > 0
    /\ distance_matrix[0][1] # distance_matrix[0][2]

\* C13: in the data model the depot is node 0 with window (480, 1020) and
\* service time 0; time_windows, service_times and locations have
\* len(stops) + 1 entries; node i carries the window, the service time and
\* the location of the i-th stop of the input, in input order.
C13_DataModelLayout ==
    (phase \notin {"NoRequest", "BuilderRaised"})
    => /\ data.depot = 0
       /\ data.stops = stops
       /\ Len(data.time_windows) = Len(stops) + 1
       /\ Len(data.service_times) = Len(stops) + 1
       /\ Len(data.locations) = Len(stops) + 1
       /\ data.time_windows[1] = <<480, 1020>>
       /\ data.service_times[1] = PyNum(0)
       /\ \A i \in 1..Len(stops) :
            /\ data.time_windows[i + 1] = StopWindow(stops[i]).val
            /\ data.service_times[i + 1] = GetOr(stops[i].service_duration, PyNum(30))
            /\ data.locations[i + 1] = <<GetOr(stops[i].latitude, PyNum(0)),
                                         GetOr(stops[i].longitude, PyNum(0))>>

\* a data model of two stops that differ from the depot and from each other
C13_Witness ==
    /\ phase = "Idle"
    /\ Len(stops) = 2
    /\ data.time_windows[2] # <<480, 1020>>
    /\ data.time_windows[3] # data.time_windows[2]
    /\ data.service_times[2] # data.service_times[3]
    /\ data.locations[2] # data.locations[3]

\* C14: the routing model has one vehicle per technician; every emitted
\* route has a vehicle_id in [0, len(technicians)), no two emitted routes
\* share a vehicle_id, and a route's technician is technicians[vehicle_id].
C14_VehiclesAreTechnicians ==
    /\ (phase \notin {"NoRequest", "BuilderRaised"})
       => data.num_vehicles = Len(technicians)
    /\ Returned
       => \A r \in 1..Len(result.routes) :
            /\ result.routes[r].vehicle_id \in 0..(Len(technicians) - 1)
            /\ result.routes[r].technician
                 = technicians[result.routes[r].vehicle_id + 1]
            /\ \A q \in 1..Len(result.routes) :
                 (q # r) => result.routes[q].vehicle_id # result.routes[r].vehicle_id

\* two routes were emitted, the second one for the second technician
C14_Witness ==
    /\ Returned
    /\ Len(result.routes) = 2
    /\ result.routes[2].technician = "tech2"

\* C15: no emitted route has an empty stop list; every vehicle that serves at
\* least one stop has an emitted route; num_vehicles_used is the number of
\* vehicles that serve at least one stop, and is len(routes).
C15_OnlyUsedVehiclesEmitted ==
    Returned
    => /\ \A r \in 1..Len(result.routes) : Len(result.routes[r].stops) > 0
       /\ \A v \in Vehicles :
            (solution.paths[v] # <<>>)
            => \E r \in 1..Len(result.routes) :
                 /\ result.routes[r].vehicle_id = v - 1
                 /\ Len(result.routes[r].stops) = Len(solution.paths[v])
       /\ result.num_vehicles_used
            = Cardinality({v \in Vehicles : solution.paths[v] # <<>>})
       /\ result.num_vehicles_used = Len(result.routes)

\* the second vehicle serves both stops and the first none: one route, for
\* vehicle_id 1
C15_Witness ==
    /\ Returned
    /\ Len(solution.paths) = 2
    /\ solution.paths[1] = <<>>
    /\ Len(result.routes) = 1
    /\ result.routes[1].vehicle_id = 1
    /\ Len(result.routes[1].stops) = 2

RECURSIVE SumVehicles(_, _)
\* the sum of f[v] over the vehicles in S
SumVehicles(f, S) ==
    IF S = {} THEN 0
    ELSE LET v == CHOOSE x \in S : TRUE
         IN  f[v] + SumVehicles(f, S \ {v})

\* C16: the result's total_distance and total_time are the sums of route
\* distance and route time over every vehicle of the run, the vehicles
\* without stops included.  Stated for requests with at least one stop and
\* one technician.
C16_TotalsOverAllVehicles ==
    (Returned /\ NonEmptyRequest)
    => /\ result.total_distance
            = SumVehicles([v \in Vehicles |->
                             RouteDistance(data, distance_matrix, solution.paths[v])],
                          Vehicles)
       /\ result.total_time
            = SumVehicles([v \in Vehicles |-> RouteTime(solution, v)], Vehicles)

RECURSIVE ArcSum(_)
\* the matrix entries between consecutive nodes of a node sequence, summed
ArcSum(nodes) ==
    IF Len(nodes) < 2 THEN 0
    ELSE distance_matrix[nodes[1]][nodes[2]] + ArcSum(Tail(nodes))

\* the nodes vehicle v passes: depot, its stops in order, depot
NodesOf(v) == <<0>> \o solution.paths[v] \o <<0>>

\* C17: for every emitted route, total_distance is the sum of the matrix
\* travel times over every arc of the vehicle's path, from the depot through
\* its stops in order and back to the depot; total_time is the vehicle's
\* cumulative time at the depot end.
C17_RouteTotals ==
    Returned
    => \A r \in 1..Len(result.routes) :
         LET v == result.routes[r].vehicle_id + 1
         IN  /\ result.routes[r].total_distance = ArcSum(NodesOf(v))
             /\ result.routes[r].total_time
                  = solution.cumul[v][Len(solution.paths[v]) + 1]

\* a route of two stops whose outbound and return arcs both take time
C17_Witness ==
    /\ Returned
    /\ \E r \in 1..Len(result.routes) :
         LET v == result.routes[r].vehicle_id + 1
             path == solution.paths[v]
         IN  /\ Len(path) = 2
             /\ distance_matrix[0][path[1]] > 0
             /\ distance_matrix[path[2]][0] > 0
             /\ result.routes[r].total_time > 480

\* the steps of one invocation of optimize_routes
InvocationStep ==
    \/ BeginOptimize
    \/ BeginOptimizeNoVehicle
    \/ AddTimeDimension
    \/ SearchFound
    \/ SearchFailed

\* the moves the lifecycle allows: forward along Idle, BuildingGraph,
\* Searching, and from Searching into one of the two terminal states
LifecycleEdges ==
    {<<"Idle", "BuildingGraph">>, <<"BuildingGraph", "Searching">>,
     <<"Searching", "FeasibleFound">>, <<"Searching", "Infeasible">>}

\* C18: every invocation of the solver moves through Idle, BuildingGraph and
\* Searching in that order and never back (no step of an invocation leaves
\* the lifecycle's edges), and an invocation that has no step left is in
\* exactly one of the terminal states FeasibleFound and Infeasible.  Stated
\* for requests with at least one stop and one technician.
C18_InvocationLifecycle ==
    /\ [][(NonEmptyRequest /\ phase # "NoRequest" /\ phase' # phase)
          => <<phase, phase'>> \in LifecycleEdges]_vars
    /\ []((/\ NonEmptyRequest
           /\ phase \notin {"NoRequest", "BuilderRaised"}
           /\ ~ENABLED InvocationStep)
          => phase \in {"FeasibleFound", "Infeasible"})

\* C19: the time limit the search of a run is given is the 'Max solve time
\* (sec)' the caller chose for that run.
C19_TimeLimitIsCallersBudget ==
    (phase \in {"Searching", "FeasibleFound", "Infeasible"})
    => time_limit = max_time_limit

\* every result dict stored so far is still there, with every field as it was
ResultsUnchanged ==
    \A id \in DOMAIN heap : id \in DOMAIN heap' /\ heap'[id] = heap[id]

\* C20: a result is created fresh by each run and never mutated afterwards:
\* no step of the page (storing it, drawing the map, showing the route
\* details, formatting it for display) changes a field of a stored result or
\* of its routes, and when the session comes to hold another result it is a
\* new object, not one that existed before.
C20_ResultNeverMutated ==
    [][/\ ResultsUnchanged
       /\ (optimized_routes' # optimized_routes)
          => optimized_routes' \notin DOMAIN heap]_vars

\* two runs have stored a result each and the second, now in the session, has
\* been drawn
C20_Witness ==
    /\ Len(heap) = 2
    /\ optimized_routes = 2
    /\ heap[1] # heap[2]
    /\ rendered.view = "map"

\* C23: with an explicit depot coordinate the location of node 0 is that
\* coordinate; without one it is the coordinate of the first stop of the
\* input list (the location the data model gives that stop).  Stated for
\* requests with at least one stop and one technician.
C23_DepotLocation ==
    (phase \notin {"NoRequest", "BuilderRaised"} /\ NonEmptyRequest)
    => data.locations[1]
         = IF depot_location.given
           THEN <<depot_location.lat, depot_location.lng>>
           ELSE data.locations[2]

\* a field the stop does not supply: the key is absent, or its value is None
Unsupplied(v) == v.kind \in {"absent", "none"}

\* C24: every node built for a stop has an integer window and an integer
\* service duration; a stop whose window field or service_duration field is
\* absent or None gets the default window (480, 1020), respectively the
\* default duration 30, never a None attribute.
C24_NodeAttributesDefined ==
    (phase \notin {"NoRequest", "BuilderRaised"})
    => \A i \in 1..Len(stops) :
         /\ data.time_windows[i + 1] \in Int \X Int
         /\ data.service_times[i + 1].kind = "num"
         /\ (Unsupplied(stops[i].time_window_start) \/ Unsupplied(stops[i].time_window_end))
            => data.time_windows[i + 1] = <<480, 1020>>
         /\ Unsupplied(stops[i].service_duration)
            => data.service_times[i + 1] = PyNum(30)

\* a request of one technician and one stop whose matrix is computed
OneStopRequest ==
    /\ Len(stops) = 1
    /\ Len(technicians) = 1
    /\ DOMAIN distance_matrix # {}

\* the stop's service takes longer than its window is wide
ServiceOutlastsWindow(node) ==
    /\ data.service_times[node + 1].kind = "num"
    /\ data.time_windows[node + 1][1] <= data.time_windows[node + 1][2]
    /\ data.service_times[node + 1].val
         > data.time_windows[node + 1][2] - data.time_windows[node + 1][1]

\* the vehicle of a one-stop request can arrive inside the stop's window: it
\* leaves the depot within the working day, travels, waits at most 30
\* minutes, and is back before the end of the day
CanArriveInside ==
    \E departure \in 480..1020 :
      \E arrival \in data.time_windows[2][1]..data.time_windows[2][2] :
        /\ arrival - departure - distance_matrix[0][1] \in 0..30
        /\ arrival + distance_matrix[1][0] <= 1440

\* C25: the window constrains the arrival time only, never the end of the
\* service: a stop whose service_duration is longer than its window is wide
\* is served whenever the vehicle can arrive inside the window (the request
\* is neither infeasible nor rejected), with the arrival inside the window.
C25_WindowAppliesToArrival ==
    (/\ OneStopRequest
     /\ ServiceOutlastsWindow(1)
     /\ CanArriveInside)
    => /\ phase \notin {"Infeasible", "SolverRaised"}
       /\ Returned
          => /\ Len(result.routes) = 1
             /\ result.routes[1].stops[1].arrival_time >= data.time_windows[2][1]
             /\ result.routes[1].stops[1].arrival_time <= data.time_windows[2][2]

\* a successful result whose stop is still being served when its window closes
C25_Witness ==
    /\ Returned
    /\ OneStopRequest
    /\ ServiceOutlastsWindow(1)
    /\ CanArriveInside
    /\ result.routes[1].stops[1].arrival_time + result.routes[1].stops[1].service_time.val
         > result.routes[1].stops[1].time_window[2]

\* the nodes of an emitted route, in the order its stops are listed
ListedNodes(route) == [i \in 1..Len(route.stops) |-> route.stops[i].stop_index + 1]

\* C29: the stops of every emitted route are listed in the vehicle's visiting
\* order, the first stop's arrival_time is at least the depot start time
\* (480, and the vehicle's own departure) plus the travel time from the
\* depot, and for consecutive stops a then b of a route
\* arrival_time(b) >= arrival_time(a) + travel_time(a, b).
C29_ArrivalsRespectTravel ==
    Returned
    => \A r \in 1..Len(result.routes) :
         LET route == result.routes[r]
             v == route.vehicle_id + 1
             nodes == ListedNodes(route)
         IN  /\ nodes = solution.paths[v]
             /\ route.stops[1].arrival_time >= 480 + distance_matrix[0][nodes[1]]
             /\ route.stops[1].arrival_time
                  >= solution.cumul[v][0] + distance_matrix[0][nodes[1]]
             /\ \A i \in 1..(Len(nodes) - 1) :
                  route.stops[i + 1].arrival_time
                    >= route.stops[i].arrival_time + distance_matrix[nodes[i]][nodes[i + 1]]

\* a route of two stops with travel from the depot to the first and from the
\* first to the second
C29_Witness ==
    /\ Returned
    /\ \E r \in 1..Len(result.routes) :
         LET nodes == ListedNodes(result.routes[r])
         IN  /\ Len(nodes) = 2
             /\ distance_matrix[0][nodes[1]] > 0
             /\ distance_matrix[nodes[1]][nodes[2]] > 0

\* the session's optimized_routes, selected_stops and the stored dicts
SessionUnchanged ==
    /\ optimized_routes' = optimized_routes
    /\ selected_stops' = selected_stops
    /\ heap' = heap

\* C27: a run of the operations page that fails or raises leaves
\* session_state.optimized_routes and session_state.selected_stops as they
\* were; what an earlier successful run stored stays until a later run
\* succeeds: only the step that stores a successful result changes them.
C27_FailedRunKeepsSession ==
    [][/\ (phase \in {"Infeasible", "BuilderRaised", "SolverRaised"})
          => SessionUnchanged
       /\ (~SessionUnchanged) => (phase = "FeasibleFound" /\ result.success)]_vars

\* a run failed after an earlier one had succeeded, and the route details of
\* the earlier result are shown
C27_Witness ==
    /\ phase = "NoRequest"
    /\ message = "Optimization failed"
    /\ optimized_routes # 0
    /\ selected_stops # <<>>
    /\ rendered.view = "details"

\* the stop visits of the result the session holds
StoredVisits ==
    LET stored == heap[optimized_routes]
    IN  UNION {{stored.routes[r].stops[i] : i \in 1..Len(stored.routes[r].stops)} :
                 r \in 1..Len(stored.routes)}

\* C28: session_state.optimized_routes and session_state.selected_stops are
\* either both unset (None and []) or were written by the same successful
\* run: every stop_index of the stored result satisfies
\* 0 <= stop_index < len(selected_stops) and its stop_data is
\* selected_stops[stop_index].
C28_SessionPairConsistent ==
    IF optimized_routes = 0
    THEN selected_stops = <<>>
    ELSE /\ optimized_routes \in DOMAIN heap
         /\ selected_stops # <<>>
         /\ \A visit \in StoredVisits :
              /\ visit.stop_index \in 0..(Len(selected_stops) - 1)
              /\ visit.stop_data = selected_stops[visit.stop_index + 1]

\* a run raised after an earlier one had succeeded
C28_Witness ==
    /\ phase = "NoRequest"
    /\ message = "Error during optimization"
    /\ optimized_routes # 0
    /\ StoredVisits # {}

\* one technician and three stops that all have the same 8-hour window
ScenarioA ==
    /\ Len(technicians) = 1
    /\ Len(stops) = 3
    /\ DOMAIN distance_matrix = 0..3
    /\ data.time_windows[2][2] - data.time_windows[2][1] = 8 * 60
    /\ \A i \in 2..4 : data.time_windows[i] = data.time_windows[2]

\* the travel times admit a tour of one vehicle within the window: it leaves
\* the depot within the working day, drives from stop to stop without
\* waiting, reaches each inside the window and is back before the day ends
TourAdmissible ==
    \E order \in Perms(1..3) :
      \E departure \in 480..1020 :
        LET first == departure + distance_matrix[0][order[1]]
            second == first + distance_matrix[order[1]][order[2]]
            third == second + distance_matrix[order[2]][order[3]]
            window == data.time_windows[2]
        IN  /\ \A arrival \in {first, second, third} :
                 window[1] <= arrival /\ arrival <= window[2]
            /\ third + distance_matrix[order[3]][0] <= 1440

\* C26: with 1 technician and 3 stops that share one 8-hour window and whose
\* travel times admit a single-vehicle tour within it, the solver does not
\* fail, and its result is a success with exactly one emitted route, which
\* visits all 3 stops.
C26_ScenarioA ==
    (ScenarioA /\ TourAdmissible)
    => /\ phase \notin {"Infeasible", "SolverRaised"}
       /\ Returned
          => /\ result.success
             /\ Len(result.routes) = 1
             /\ {result.routes[1].stops[i].stop_index :
                   i \in 1..Len(result.routes[1].stops)} = {0, 1, 2}
             /\ Len(result.routes[1].stops) = 3

\* a successful tour of scenario A that needs more than five hours of travel
C26_Witness ==
    /\ ScenarioA
    /\ TourAdmissible
    /\ Returned
    /\ Len(result.routes) = 1
    /\ Len(result.routes[1].stops) = 3
    /\ result.routes[1].total_distance > 5 * 60

\* C30: for every m with 0 <= m < 1440, time_to_minutes of the HH:MM string
\* format_route_for_display makes of arrival m is m; and for every
\* well-formed 'HH:MM' or 'HH:MM:SS' string time_to_minutes is 60 * HH + MM,
\* the seconds ignored.
C30_TimeRoundTrip ==
    (time_minutes # NotParsed)
    => /\ time_minutes.ok
       /\ time_minutes.val
            = IF time_input.kind = "minutes"
              THEN time_input.minutes
              ELSE 60 * time_input.hours + time_input.minutes

\* 23:59 was formatted and parsed back
C30_Witness ==
    /\ time_input.kind = "minutes"
    /\ time_input.minutes = 1439
    /\ time_text = PyStr(<<"2", "3", ":", "5", "9">>)
    /\ time_minutes.ok
    /\ time_minutes.val = 1439

\* how a request ended
Outcome(ph, res, err) == [phase |-> ph, result |-> res, error |-> err]

\* the outcomes of create_data_model followed by optimize_routes on the
\* given arguments, run with nothing else going on
AloneOutcomes(s, t, dl) ==
    LET built == create_data_model(s, t, dl)
    IN  IF built.raised THEN {Outcome("BuilderRaised", NoResult, built.err)}
        ELSE LET d == built.val
                 m == compute_euclidean_distance_matrix(d.locations)
             IN  IF m.raised THEN {Outcome("SolverRaised", NoResult, m.err)}
                 ELSE IF SetRangeFails(d)
                 THEN {Outcome("SolverRaised", NoResult, "CP Solver fail")}
                 ELSE IF Solve(d, m.val) = {}
                 THEN {Outcome("Infeasible", NoResult, "none")}
                 ELSE {Outcome("FeasibleFound", extract_solution(d, m.val, sol), "none") :
                         sol \in Solve(d, m.val)}

Ended(ph) == ph \in {"BuilderRaised", "SolverRaised", "FeasibleFound", "Infeasible"}

\* C21: of two requests whose steps interleave in any order, each ends as it
\* would have ended alone: its result (or its failure) is one that
\* create_data_model and optimize_routes give for its own arguments.
C21_ConcurrentRequestsIsolated ==
    /\ Ended(phase)
       => Outcome(phase, result, error)
            \in AloneOutcomes(stops, technicians, depot_location)
    /\ Ended(peer.phase)
       => Outcome(peer.phase, peer.result, peer.error)
            \in AloneOutcomes(peer.stops, peer.technicians, peer.depot_location)

\* both requests, made with different stops, have returned routes, each
\* its own
C21_Witness ==
    /\ phase = "FeasibleFound"
    /\ result.success
    /\ peer.phase = "FeasibleFound"
    /\ peer.result.success
    /\ Len(peer.stops) # Len(stops)
    /\ peer.result # result

\* a stop with its priority left out
WithoutPriority(stop) == [f \in DOMAIN stop \ {"priority"} |-> stop[f]]

\* the two requests have the same technicians, the same depot and stop lists
\* that are the same but for the stops' priorities
SameButPriority ==
    /\ technicians = peer.technicians
    /\ depot_location = peer.depot_location
    /\ Len(stops) = Len(peer.stops)
    /\ \A i \in 1..Len(stops) :
         WithoutPriority(stops[i]) = WithoutPriority(peer.stops[i])

\* the request has computed its distance matrix
GraphBuilt(ph) == ph \in {"BuildingGraph", "Searching", "FeasibleFound", "Infeasible"}

\* C22: two runs whose stop lists are the same but for the priorities of the
\* stops have the same node windows, service times, locations, number of
\* vehicles and distance matrix, and so the same solutions to choose from.
C22_PriorityNotEnforced ==
    (SameButPriority /\ phase # "NoRequest" /\ peer.phase # "NoRequest")
    => /\ phase = "BuilderRaised" <=> peer.phase = "BuilderRaised"
       /\ data.time_windows = peer.data.time_windows
       /\ data.service_times = peer.data.service_times
       /\ data.locations = peer.data.locations
       /\ data.num_vehicles = peer.data.num_vehicles
       /\ (GraphBuilt(phase) /\ GraphBuilt(peer.phase))
          => /\ distance_matrix = peer.distance_matrix
             /\ Solve(data, distance_matrix) = Solve(peer.data, peer.distance_matrix)

\* two runs over two stops, the first stop of priority 1 in the one and 5 in
\* the other, have both returned routes
C22_Witness ==
    /\ SameButPriority
    /\ Len(stops) = 2
    /\ stops[1].priority = PyNum(1)
    /\ peer.stops[1].priority = PyNum(5)
    /\ phase = "FeasibleFound"
    /\ peer.phase = "FeasibleFound"
    /\ data.time_windows = peer.data.time_windows
    /\ distance_matrix = peer.distance_matrix

====
